---- MODULE Spec2Model ----
(***************************************************************************)
(* vwifi: a virtual cfg80211 (FullMAC) wireless driver.  The model covers *)
(* the control plane of src/vwifi.c (scan / connect / disconnect, their   *)
(* work items, the scan timer and module exit), the AP database built by  *)
(* update_ssids, and the data path (start_xmit / handle_rx).              *)
(*                                                                         *)
(* Strings are sequences of byte values without the terminating NUL.      *)
(* 64-bit values are sequences of 8 bytes, least significant byte first.  *)
(***************************************************************************)
EXTENDS Integers, Sequences, FiniteSets, TLC

(***************************************************************************)
(* Program constants                                                       *)
(***************************************************************************)
NDEV_NUMS == 2
SSID_MAX_LENGTH == 32
ETH_DATA_LEN == 1500
ETH_HLEN == 14
NETDEV_TX_OK == "NETDEV_TX_OK"
WLAN_EID_SSID == 0

(* return values of the cfg80211 operations *)
OK == "0"
EBUSY == "-EBUSY"
ERESTARTSYS == "-ERESTARTSYS"

(* byte values of the characters the parser looks at *)
LBRACK == 91
RBRACK == 93
delims == {LBRACK, RBRACK}

(***************************************************************************)
(* Strings of the model                                                    *)
(***************************************************************************)
Home == <<72, 111, 109, 101>>
Work == <<87, 111, 114, 107>>
Home2 == <<72, 111, 109, 101, 50>>
Ho == <<72, 111>>
Unknown == <<85, 110, 107, 110, 111, 119, 110>>
MyHomeWiFi == <<77, 121, 72, 111, 109, 101, 87, 105, 70, 105>>
EmptySsid == << >>
(* tokens of SSID_MAX_LENGTH - 1, SSID_MAX_LENGTH and SSID_MAX_LENGTH + 1
   bytes, all 'A' *)
Ssid31 == [i \in 1 .. 31 |-> 65]
Ssid32 == [i \in 1 .. 32 |-> 65]
Ssid33 == [i \in 1 .. 33 |-> 65]

HashedStrings == {Home, Work, Home2, Ho, Unknown, MyHomeWiFi, EmptySsid,
                  Ssid31, Ssid32, Ssid33}

(***************************************************************************)
(* Byte-wise 64-bit arithmetic for murmurhash                              *)
(***************************************************************************)
RECURSIVE Xor(_, _)
Xor(a, b) ==
    IF a = 0 THEN b
    ELSE IF b = 0 THEN a
    ELSE (((a % 2) + (b % 2)) % 2) + 2 * Xor(a \div 2, b \div 2)

RECURSIVE Conv(_, _, _, _)
(* sum of a[i] * b[k + 1 - i] for i in 1..j : column k of a long product *)
Conv(a, b, k, j) ==
    IF j = 0 THEN 0 ELSE a[j] * b[k + 1 - j] + Conv(a, b, k, j - 1)

RECURSIVE MulCols(_, _, _, _, _)
(* the low w bytes of a * b, column by column with carry *)
MulCols(a, b, w, k, carry) ==
    IF k > w THEN << >>
    ELSE LET t == Conv(a, b, k, k) + carry
         IN  <<(t % 256)>> \o MulCols(a, b, w, k + 1, t \div 256)

Mul64(a, b) == MulCols(a, b, 8, 1, 0)
Mul32(a, b) == MulCols(a, b, 4, 1, 0)

(* h ^= h >> 47 : bits 47..63 of h are folded into its low 17 bits *)
XorShr47(h) ==
    LET x == (h[6] \div 128) + 2 * h[7] + 512 * h[8]
    IN  [h EXCEPT ![1] = Xor(h[1], x % 256),
                  ![2] = Xor(h[2], (x \div 256) % 256),
                  ![3] = Xor(h[3], x \div 65536)]

MURMUR_SEED == <<23, 246, 157, 152, 230, 227, 73, 7>>    \* 525201411107845655
MURMUR_MULT == <<149, 233, 209, 91, 149, 233, 209, 91>>  \* 0x5bd1e9955bd1e995
GOLDEN_RATIO_32 == <<71, 134, 200, 97>>                  \* 0x61C88647

RECURSIVE murmurfold(_, _)
(* the loop of murmurhash; h1 is worked out before the next round *)
murmurfold(h, str) ==
    IF str = << >> THEN h
    ELSE LET h1 == XorShr47(Mul64([h EXCEPT ![1] = Xor(h[1], Head(str))],
                                  MURMUR_MULT))
         IN  IF Len(h1) = 8 THEN murmurfold(h1, Tail(str)) ELSE h1

(* murmurhash of the strings the model hashes, computed once *)
MurmurOf == [str \in HashedStrings |-> murmurfold(MURMUR_SEED, str)]

murmurhash(str) ==
    IF str \in HashedStrings THEN MurmurOf[str]
    ELSE murmurfold(MURMUR_SEED, str)

(* u32 key = murmurhash(..) : the low four bytes *)
KeyOf(str) == SubSeq(murmurhash(str), 1, 4)

(* hash_min(key, HASH_BITS(ssid_table)) = (key * GOLDEN_RATIO_32) >> 28 *)
hash_32(key) == Mul32(key, GOLDEN_RATIO_32)[4] \div 16

hash_min(key) == hash_32(key)

(* the bucket of a string, computed once for the strings of the model *)
BucketOf == [str \in HashedStrings |-> hash_min(KeyOf(str))]

Bucket(str) ==
    IF str \in HashedStrings THEN BucketOf[str] ELSE hash_min(KeyOf(str))

(* u64_to_ether_addr writes the low 48 bits most significant byte first;
   then the multicast bit is cleared and the local bit set *)
u64_to_bssid(h) ==
    LET
        b0 == h[6]
        c0 == b0 - (b0 % 2)
        r0 == IF (c0 \div 2) % 2 = 1 THEN c0 ELSE c0 + 2
    IN  <<r0, h[5], h[4], h[3], h[2], h[1]>>

BssidOf == [str \in HashedStrings |-> u64_to_bssid(MurmurOf[str])]

generate_bssid_with_ssid(ssid) ==
    IF ssid \in HashedStrings THEN BssidOf[ssid]
    ELSE u64_to_bssid(murmurhash(ssid))

(***************************************************************************)
(* AP database: DECLARE_HASHTABLE(ssid_table, 4), one hlist per bucket,    *)
(* new entries are linked at the head of their bucket.                     *)
(***************************************************************************)
Buckets == 0 .. 15

(* a wrong start: the table already holds Home when the module is loaded *)
PreloadedTable ==
    [b \in Buckets |-> IF b = BucketOf[Home]
                       THEN <<[ssid |-> Home, bssid |-> BssidOf[Home]]>>
                       ELSE << >>]

(* static DECLARE_HASHTABLE(ssid_table, 4): every bucket empty *)
EmptyTable == [b \in Buckets |-> << >>]

ap_info_entry_t(ssid) == [ssid |-> ssid, bssid |-> generate_bssid_with_ssid(ssid)]

(* hash_add(ssid_table, &ap->node, key) with bkt = hash_min(key) *)
hash_add(table, ap, bkt) ==
    [table EXCEPT ![bkt] = <<ap>> \o @]

hash_empty(table) == \A b \in Buckets : table[b] = << >>

RECURSIVE FlattenFrom(_, _)
(* hash_for_each_safe: buckets in index order, each from its head *)
FlattenFrom(table, b) ==
    IF b > 15 THEN << >> ELSE table[b] \o FlattenFrom(table, b + 1)

hash_for_each(table) == FlattenFrom(table, 0)

SsidsOf(table) ==
    LET all == hash_for_each(table) IN {all[i].ssid : i \in 1 .. Len(all)}

(* strspn(s, "[]") and strcspn(s, "[]") *)
RECURSIVE strspn(_)
strspn(s) ==
    IF s # << >> /\ Head(s) \in delims THEN 1 + strspn(Tail(s)) ELSE 0

RECURSIVE strcspn(_)
strcspn(s) ==
    IF s # << >> /\ Head(s) \notin delims THEN 1 + strcspn(Tail(s)) ELSE 0

Drop(s, n) == SubSeq(s, n + 1, Len(s))

(* strncmp(token, ap->ssid, n) == 0: the first n bytes of the stored SSID
   are the token *)
strncmp_eq(token, ssid, n) ==
    /\ Len(ssid) >= n
    /\ SubSeq(ssid, 1, n) = token

(* strcmp(connecting_ssid, ap->ssid) == 0 *)
strcmp_eq(a, b) == a = b

(* the scan of the token's bucket in update_ssids *)
ssid_exist(table, token, n) ==
    LET bkt == table[Bucket(token)]
    IN  \E i \in 1 .. Len(bkt) : strncmp_eq(token, bkt[i].ssid, n)

(* char token[SSID_MAX_LENGTH]: strncpy(token, s, n) and token[n] = 0
   write n + 1 bytes, so a token of SSID_MAX_LENGTH bytes or more is
   written past the end of the array *)
token_overflow(n) == n + 1 > SSID_MAX_LENGTH

(* char ssid[SSID_MAX_LENGTH] of the entry: strncpy(ap->ssid, token, n) *)
ssid_overflow(n) == n > SSID_MAX_LENGTH

(* One iteration of the for loop of update_ssids on the rest s of the
   configuration string.  alloc is the outcome of kzalloc.  The result is
   the table, the rest of the string, whether update_ssids returned, and
   whether a write went past token[] or ap->ssid[].  What follows such a
   write is not defined: either the handler dies (survive = FALSE, oops),
   or the n bytes lie in memory as written and the run goes on with them
   (survive = TRUE). *)
update_ssids_iter(table, s, alloc, survive) ==
    LET s1    == Drop(s, strspn(s))
        n     == strcspn(s1)
        token == SubSeq(s1, 1, n)
        s2    == Drop(s1, n)
        base  == [table |-> table, s |-> s2, ret |-> FALSE,
                  oob |-> token_overflow(n), oops |-> FALSE]
    IN  IF n = 0 THEN [base EXCEPT !.s = s1]
        ELSE IF token_overflow(n) /\ ~survive
             THEN [base EXCEPT !.oops = TRUE]
        ELSE IF ssid_exist(table, token, n) THEN base
        ELSE IF ~alloc THEN [base EXCEPT !.ret = TRUE]
        ELSE [base EXCEPT
                !.table = hash_add(table, ap_info_entry_t(token),
                                   Bucket(token)),
                !.oob = token_overflow(n) \/ ssid_overflow(n)]

is_valid_ssid(table, connecting_ssid) ==
    LET bkt == table[Bucket(connecting_ssid)]
    IN  \E i \in 1 .. Len(bkt) : strcmp_eq(connecting_ssid, bkt[i].ssid)

(* get_connecting_bssid: the BSSID of the first match, else the old value *)
get_connecting_bssid(table, connecting_ssid, old) ==
    LET bkt == table[Bucket(connecting_ssid)]
        hit == {i \in 1 .. Len(bkt) : strcmp_eq(connecting_ssid, bkt[i].ssid)}
    IN  IF hit = {} THEN old
        ELSE bkt[CHOOSE i \in hit : \A j \in hit : i <= j].bssid

(***************************************************************************)
(* Inputs of the control-plane specification                               *)
(***************************************************************************)
Bracket(ssid) == <<LBRACK>> \o ssid \o <<RBRACK>>

DEFAULT_SSID_LIST == Bracket(MyHomeWiFi)
CfgHomeWork == Bracket(Home) \o Bracket(Work)
CfgWork == Bracket(Work)

(* values of the module parameter ssid_list *)
Configs == {CfgHomeWork, CfgWork}
(* SSIDs the host stack asks to connect to *)
ConnectSsids == {Home, Unknown}
(* reason codes the host stack disconnects with *)
Reasons == {3, 5}

(* number of scan / connect / disconnect calls of the host stack *)
MaxCalls == 3
(* number of writes of the module parameter after loading *)
MaxWrites == 1

(***************************************************************************)
(* State                                                                   *)
(***************************************************************************)
VARIABLES
    lock,                   \* owl->lock: "free" or the holder
    scan_request,           \* owl->scan_request: 0 is NULL
    connecting_ssid,        \* owl->connecting_ssid
    connecting_bssid,       \* owl->connecting_bssid
    disconnect_reason_code, \* owl->disconnect_reason_code
    pending,                \* per work item: queued on the work queue
    wpc,                    \* per work item: position of its running handler
    timer_armed,            \* owl->scan_timeout is pending
    ssid_list,              \* module parameter ssid_list
    ssid_table,             \* AP database
    ld_s,                   \* update_ssids: the rest s of the string
    it_rest,                \* inform_dummy_bss: entries still to report
    bss_reports,            \* IEs reported by the running scan-complete work
    host,                   \* the host stack's control thread
    ctx,                    \* g_ctx: "live", "exit1" .. "exit3", "freed"
    uaf,                    \* the freed context was used
    ncalls, nwrites,        \* inputs consumed
    ev,                     \* what the last step showed the host stack:
                            \* a return value or an upcall
    scan_open,              \* accepted scan requests without scan_done
    scan_stage,             \* how far the accepted scan has got: "accepted",
                            \* "started" (scan-start work ran), "fired"
                            \* (timer), "running" (scan-complete work runs
                            \* for the first time), "rerun" (it runs again)
    conn_q,                 \* SSIDs of accepted connects not yet answered
    disc_q,                 \* reasons of accepted disconnects not yet answered
    ld_before, ld_cfg, ld_failed, nloads,  \* bookkeeping of update_ssids runs
    ld_oob,                 \* update_ssids wrote past token[] or ap->ssid[]
    ld_started,             \* update_ssids has been called since the module
                            \* was loaded
    stats, rx_queue, txp, rx_log, ntx,     \* data path
    netif,                  \* per interface: its queue is started (up) and
                            \* the packets its last owl_ndo_stop freed
    cr,                     \* owl_create_context: position and objects
    rnd,                    \* what get_random_u32() returns, as an s32
    signal                  \* data.signal of the BSS reports made, in mBm

fields == <<scan_request, connecting_ssid, connecting_bssid,
            disconnect_reason_code>>
wq == <<pending, wpc, timer_armed>>
db == <<ssid_table, ld_s, it_rest, bss_reports>>
env == <<ssid_list, nwrites, ncalls, ctx, uaf>>
hist == <<scan_open, scan_stage, conn_q, disc_q>>
loadvars == <<ld_before, ld_cfg, ld_failed, nloads, ld_oob, ld_started>>
datavars == <<stats, rx_queue, txp, rx_log, ntx, netif>>
createvars == <<cr>>
randvars == <<rnd, signal>>
othervars == <<createvars, randvars>>
vars == <<lock, fields, wq, db, host, env, ev, hist, loadvars, datavars, othervars>>

Works == {"ws_scan", "ws_scan_timeout", "ws_connect", "ws_disconnect"}
Idle == [op |-> "idle", step |-> "none", arg |-> 0]
NoEvent == [type |-> "none"]

(***************************************************************************)
(* Data path inputs                                                        *)
(***************************************************************************)
Devs == 0 .. (NDEV_NUMS - 1)       \* netintf_list: owl0, owl0sink
FrameLens == {64, ETH_DATA_LEN, ETH_DATA_LEN + ETH_HLEN}
FrameFills == {0, 1}
(* a frame of len bytes, byte i being (fill + i) % 256 *)
Frames == [len : FrameLens, fill : FrameFills, tail : {"intact"}]
(* number of frames the host stack transmits *)
MaxFrames == 2

ZeroStats == [tx_packets |-> 0, tx_bytes |-> 0, rx_packets |-> 0,
              rx_bytes |-> 0, rx_dropped |-> 0]
TxIdle == [pc |-> "idle"]

(***************************************************************************)
(* owl_create_context: the objects it makes.  ret is the context, wiphy    *)
(* the radio, ndev the two interfaces, netintf_list the list they are      *)
(* appended to, it the cursor of the clean-up loop.  left counts the       *)
(* interfaces earlier failed loads of the module left behind, n the loads. *)
(***************************************************************************)
NotCreated(n, left) ==
    [pc |-> "kmalloc", i |-> 0, ret |-> "none", wiphy |-> "none",
     ndev |-> [d \in Devs |-> "none"], netintf_list |-> << >>, it |-> << >>,
     faults |-> {}, left |-> left, n |-> n]

(* what owl_create_context returns to vwifi_init when every step succeeds *)
Created ==
    [NotCreated(1, 0) EXCEPT
        !.pc = "loaded", !.i = NDEV_NUMS, !.ret = "live",
        !.wiphy = "registered", !.ndev = [d \in Devs |-> "registered"],
        !.netintf_list = <<0, 1>>]

(***************************************************************************)
(* vwifi_init: the state after owl_create_context and the INIT_WORK,       *)
(* timer_setup and mutex_init calls.  ssid_list is whatever the module was *)
(* loaded with.  connecting_bssid is not initialised (kmalloc) and never   *)
(* read.                                                                   *)
(***************************************************************************)
vwifi_init ==
    /\ lock = "free"
    /\ scan_request = 0
    /\ connecting_ssid = EmptySsid
    /\ connecting_bssid = << >>
    /\ disconnect_reason_code = 0
    /\ pending = [w \in Works |-> FALSE]
    /\ wpc = [w \in Works |-> "idle"]
    /\ timer_armed = FALSE
    /\ ssid_table = EmptyTable
    /\ ld_s = << >>
    /\ it_rest = << >>
    /\ bss_reports = << >>
    /\ host = Idle
    /\ ctx = "live"
    /\ uaf = FALSE
    /\ ncalls = 0
    /\ nwrites = 0
    /\ ev = NoEvent
    /\ scan_open = {}
    /\ scan_stage = "none"
    /\ conn_q = << >>
    /\ disc_q = << >>
    /\ ld_before = EmptyTable
    /\ ld_cfg = << >>
    /\ ld_failed = FALSE
    /\ nloads = 0
    /\ ld_oob = FALSE
    /\ ld_started = FALSE
    /\ stats = [d \in Devs |-> ZeroStats]
    /\ rx_queue = [d \in Devs |-> << >>]
    /\ txp = [d \in Devs |-> TxIdle]
    /\ rx_log = [d \in Devs |-> << >>]
    /\ ntx = 0
    /\ netif = [d \in Devs |-> [up |-> FALSE, stop_freed |-> 0]]

Init ==
    /\ ssid_list \in Configs
    /\ vwifi_init
    /\ cr = Created
    /\ rnd = 0
    /\ signal = << >>

(***************************************************************************)
(* The host stack's control thread.  It calls one cfg80211 operation at a  *)
(* time; every scan call brings a fresh request.                           *)
(***************************************************************************)
HostCall ==
    /\ ctx = "live"
    /\ host = Idle
    /\ ncalls < MaxCalls
    /\ ncalls' = ncalls + 1
    /\ \/ host' = [op |-> "scan", step |-> "lock", arg |-> ncalls + 1]
       \/ \E sme \in ConnectSsids :
              host' = [op |-> "connect", step |-> "lock", arg |-> sme]
       \/ \E reason_code \in Reasons :
              host' = [op |-> "disconnect", step |-> "lock",
                       arg |-> reason_code]
    /\ ev' = NoEvent
    /\ UNCHANGED <<lock, fields, wq, db, ssid_list, nwrites, ctx, uaf, hist,
                   loadvars, datavars, othervars>>

Return(val) ==
    /\ ev' = [type |-> "return", op |-> host.op, arg |-> host.arg,
              val |-> val]
    /\ host' = Idle

(* mutex_lock_interruptible(&owl->lock) by the caller: taken when free *)
HostLock ==
    /\ host.step = "lock"
    /\ lock = "free"
    /\ lock' = "host"
    /\ host' = [host EXCEPT !.step = "cs"]
    /\ ev' = NoEvent
    /\ UNCHANGED <<fields, wq, db, env, hist, loadvars, datavars, othervars>>

(* sme->ssid_len > SSID_MAX_LENGTH ? SSID_MAX_LENGTH : sme->ssid_len *)
TruncSsid(ssid) ==
    IF Len(ssid) > SSID_MAX_LENGTH THEN SubSeq(ssid, 1, SSID_MAX_LENGTH)
    ELSE ssid

(* a wrong order: the SSID is copied before the mutex is waited for *)
InterruptedStaging_early ==
    /\ connecting_ssid' = IF host.op = "connect" THEN TruncSsid(host.arg)
                          ELSE connecting_ssid
    /\ UNCHANGED <<scan_request, connecting_bssid, disconnect_reason_code,
                   pending>>

(* what a call whose wait for the mutex was interrupted leaves behind *)
InterruptedStaging == UNCHANGED <<fields, pending>>

(* ... or interrupted by a signal while it waits for the holder:
   owl_scan, owl_connect and owl_disconnect return -ERESTARTSYS *)
HostInterrupted ==
    /\ host.step = "lock"
    /\ lock # "free"
    /\ Return(ERESTARTSYS)
    /\ InterruptedStaging
    /\ UNCHANGED <<lock, wpc, timer_armed, db, env, hist, loadvars, datavars, othervars>>

(* schedule_work: queues the item unless it is already queued *)
schedule_work(w) == [pending EXCEPT ![w] = TRUE]

(* a wrong test: the scan-start work is queued *)
scan_in_progress_queued == pending["ws_scan"]

(* the test of owl->scan_request in owl_scan, line 387 *)
scan_in_progress == scan_request # 0

(* owl_scan under the mutex: lines 387-393 *)
owl_scan_locked ==
    /\ host.op = "scan" /\ host.step = "cs"
    /\ IF scan_in_progress
       THEN /\ Return(EBUSY)
            /\ UNCHANGED scan_request
       ELSE /\ scan_request' = host.arg
            /\ host' = [host EXCEPT !.step = "sched"]
            /\ ev' = NoEvent
    /\ lock' = "free"
    /\ UNCHANGED <<connecting_ssid, connecting_bssid, disconnect_reason_code,
                   wq, db, env, hist, loadvars, datavars, othervars>>

(* owl_scan after the mutex: lines 395-397 *)
owl_scan_submit ==
    /\ host.op = "scan" /\ host.step = "sched"
    /\ IF pending["ws_scan"]
       THEN /\ Return(EBUSY)
            /\ UNCHANGED <<pending, scan_open, scan_stage>>
       ELSE /\ pending' = schedule_work("ws_scan")
            /\ scan_open' = scan_open \cup {host.arg}
            /\ scan_stage' = "accepted"
            /\ Return(OK)
    /\ UNCHANGED <<lock, fields, wpc, timer_armed, db, env, conn_q, disc_q,
                   loadvars, datavars, othervars>>

(* owl_connect under the mutex: lines 417-420 *)
owl_connect_locked ==
    /\ host.op = "connect" /\ host.step = "cs"
    /\ connecting_ssid' = TruncSsid(host.arg)
    /\ connecting_bssid' =
           get_connecting_bssid(ssid_table, connecting_ssid', connecting_bssid)
    /\ lock' = "free"
    /\ host' = [host EXCEPT !.step = "sched"]
    /\ ev' = NoEvent
    /\ UNCHANGED <<scan_request, disconnect_reason_code, wq, db, env, hist,
                   loadvars, datavars, othervars>>

(* owl_connect after the mutex: lines 422-424 *)
owl_connect_submit ==
    /\ host.op = "connect" /\ host.step = "sched"
    /\ IF pending["ws_connect"]
       THEN /\ Return(EBUSY)
            /\ UNCHANGED <<pending, conn_q>>
       ELSE /\ pending' = schedule_work("ws_connect")
            /\ conn_q' = Append(conn_q, host.arg)
            /\ Return(OK)
    /\ UNCHANGED <<lock, fields, wpc, timer_armed, db, env, scan_open, scan_stage, disc_q,
                   loadvars, datavars, othervars>>

(* owl_disconnect under the mutex: lines 442-444 *)
owl_disconnect_locked ==
    /\ host.op = "disconnect" /\ host.step = "cs"
    /\ disconnect_reason_code' = host.arg
    /\ lock' = "free"
    /\ host' = [host EXCEPT !.step = "sched"]
    /\ ev' = NoEvent
    /\ UNCHANGED <<scan_request, connecting_ssid, connecting_bssid, wq, db,
                   env, hist, loadvars, datavars, othervars>>

(* owl_disconnect after the mutex: lines 446-449 *)
owl_disconnect_submit ==
    /\ host.op = "disconnect" /\ host.step = "sched"
    /\ IF pending["ws_disconnect"]
       THEN /\ Return(EBUSY)
            /\ UNCHANGED <<pending, disc_q>>
       ELSE /\ pending' = schedule_work("ws_disconnect")
            /\ disc_q' = Append(disc_q, host.arg)
            /\ Return(OK)
    /\ UNCHANGED <<lock, fields, wpc, timer_armed, db, env, scan_open, scan_stage, conn_q,
                   loadvars, datavars, othervars>>

(***************************************************************************)
(* Work queue and timer.  A queued work item starts when no instance of   *)
(* it is running; starting clears the queued bit.  A handler that waits   *)
(* for the mutex gets it when it is free, or is interrupted while it      *)
(* waits for the holder (mutex_lock_interruptible).                       *)
(***************************************************************************)
Runnable(w) == ctx # "freed" /\ pending[w] /\ wpc[w] = "idle"

(* a wrong scan-start work: it submits the scan-complete work itself *)
owl_scan_routine_no_timer ==
    /\ Runnable("ws_scan")
    /\ pending' = [pending EXCEPT !["ws_scan"] = FALSE,
                                  !["ws_scan_timeout"] = TRUE]
    /\ scan_stage' = IF scan_stage = "accepted" THEN "started" ELSE scan_stage
    /\ ev' = NoEvent
    /\ UNCHANGED <<lock, fields, wpc, timer_armed, db, host, env, scan_open,
                   conn_q, disc_q, loadvars, datavars, othervars>>

(* owl_scan_routine: mod_timer(&owl->scan_timeout, ...) *)
owl_scan_routine ==
    /\ Runnable("ws_scan")
    /\ pending' = [pending EXCEPT !["ws_scan"] = FALSE]
    /\ timer_armed' = TRUE
    /\ scan_stage' = IF scan_stage = "accepted" THEN "started" ELSE scan_stage
    /\ ev' = NoEvent
    /\ UNCHANGED <<lock, fields, wpc, db, host, env, scan_open, conn_q,
                   disc_q, loadvars, datavars, othervars>>

(* a wrong timer: periodic, it stays armed when its callback has run *)
owl_scan_timeout_periodic ==
    /\ ctx # "freed"
    /\ timer_armed
    /\ timer_armed' = TRUE
    /\ pending' = IF scan_request # 0 THEN schedule_work("ws_scan_timeout")
                  ELSE pending
    /\ scan_stage' = IF scan_stage = "started" THEN "fired" ELSE scan_stage
    /\ ev' = NoEvent
    /\ UNCHANGED <<lock, fields, wpc, db, host, env, scan_open, conn_q,
                   disc_q, loadvars, datavars, othervars>>

(* owl_scan_timeout: the timer expires and its callback runs *)
owl_scan_timeout ==
    /\ ctx # "freed"
    /\ timer_armed
    /\ timer_armed' = FALSE
    /\ pending' = IF scan_request # 0 THEN schedule_work("ws_scan_timeout")
                  ELSE pending
    /\ scan_stage' = IF scan_stage = "started" THEN "fired" ELSE scan_stage
    /\ ev' = NoEvent
    /\ UNCHANGED <<lock, fields, wpc, db, host, env, scan_open, conn_q,
                   disc_q, loadvars, datavars, othervars>>

(* where inform_dummy_bss goes once update_ssids has returned: the
   hash_empty test and the start of hash_for_each_safe *)
AfterUpdate(table) ==
    IF hash_empty(table) THEN [pc |-> "lock", it |-> << >>]
    ELSE [pc |-> "report", it |-> hash_for_each(table)]

(* owl_scan_timeout_work starts: inform_dummy_bss calls
   update_ssids(ssid_list) *)
owl_scan_timeout_work_start ==
    /\ Runnable("ws_scan_timeout")
    /\ pending' = [pending EXCEPT !["ws_scan_timeout"] = FALSE]
    /\ bss_reports' = << >>
    /\ ld_failed' = FALSE
    /\ ld_oob' = FALSE
    /\ ld_started' = TRUE
    /\ IF ssid_list = << >>
       THEN /\ wpc' = [wpc EXCEPT !["ws_scan_timeout"] =
                                      AfterUpdate(ssid_table).pc]
            /\ it_rest' = AfterUpdate(ssid_table).it
            /\ ld_s' = << >>
       ELSE /\ wpc' = [wpc EXCEPT !["ws_scan_timeout"] = "load"]
            /\ ld_s' = ssid_list
            /\ UNCHANGED it_rest
    /\ scan_stage' = IF scan_stage = "fired" THEN "running" ELSE "rerun"
    /\ ev' = NoEvent
    /\ UNCHANGED <<lock, fields, timer_armed, ssid_table, host, env,
                   scan_open, conn_q, disc_q, ld_before, ld_cfg, nloads,
                   datavars, othervars>>

(* one iteration of the loop of update_ssids; after the last one
   inform_dummy_bss goes on *)
update_ssids_step ==
    /\ ctx # "freed"
    /\ wpc["ws_scan_timeout"] = "load"
    /\ \E alloc \in BOOLEAN, survive \in BOOLEAN :
         LET r == update_ssids_iter(ssid_table, ld_s, alloc, survive)
         IN  /\ ssid_table' = r.table
             /\ ld_failed' = r.ret
             /\ ld_oob' = (ld_oob \/ r.oob)
             /\ IF r.oops
                THEN /\ wpc' = [wpc EXCEPT !["ws_scan_timeout"] = "oops"]
                     /\ ld_s' = << >>
                     /\ UNCHANGED it_rest
                ELSE IF r.ret \/ r.s = << >>
                THEN /\ wpc' = [wpc EXCEPT !["ws_scan_timeout"] =
                                               AfterUpdate(r.table).pc]
                     /\ it_rest' = AfterUpdate(r.table).it
                     /\ ld_s' = << >>
                ELSE /\ ld_s' = r.s
                     /\ UNCHANGED <<wpc, it_rest>>
    /\ ev' = NoEvent
    /\ UNCHANGED <<lock, fields, pending, timer_armed, bss_reports, host, env,
                   hist, ld_before, ld_cfg, nloads, ld_started, datavars,
                   othervars>>

(* the SSID element built in inform_dummy_bss: ie[0], ie[1], payload *)
SsidIe(ap) == <<WLAN_EID_SSID, Len(ap.ssid)>> \o ap.ssid

(* one iteration of hash_for_each_safe in inform_dummy_bss.  kmalloc of
   the IE buffer is not checked: on failure ie[0] = ... writes through a
   null pointer and the handler dies there. *)
inform_dummy_bss_step ==
    /\ ctx # "freed"
    /\ wpc["ws_scan_timeout"] = "report"
    /\ \E alloc \in BOOLEAN :
         IF alloc
         THEN /\ bss_reports' = Append(bss_reports, SsidIe(Head(it_rest)))
              /\ it_rest' = Tail(it_rest)
              /\ wpc' = [wpc EXCEPT !["ws_scan_timeout"] =
                            IF Tail(it_rest) = << >> THEN "lock" ELSE "report"]
         ELSE /\ wpc' = [wpc EXCEPT !["ws_scan_timeout"] = "oops"]
              /\ UNCHANGED <<bss_reports, it_rest>>
    /\ ev' = NoEvent
    /\ UNCHANGED <<lock, fields, pending, timer_armed, ssid_table, ld_s, host,
                   env, hist, loadvars, datavars, othervars>>

(* a work handler starts and reaches its mutex_lock_interruptible *)
WorkStart(w) ==
    /\ Runnable(w)
    /\ pending' = [pending EXCEPT ![w] = FALSE]
    /\ wpc' = [wpc EXCEPT ![w] = "lock"]
    /\ ev' = NoEvent
    /\ UNCHANGED <<lock, fields, timer_armed, db, host, env, hist, loadvars,
                   datavars, othervars>>

(* mutex_lock_interruptible in a work handler succeeds *)
WorkLock(w) ==
    /\ ctx # "freed"
    /\ wpc[w] = "lock"
    /\ lock = "free"
    /\ lock' = w
    /\ wpc' = [wpc EXCEPT ![w] = "cs"]
    /\ ev' = NoEvent
    /\ UNCHANGED <<fields, pending, timer_armed, db, host, env, hist,
                   loadvars, datavars, othervars>>

(* mutex_lock_interruptible in a work handler fails: the handler returns *)
WorkInterrupted(w) ==
    /\ ctx # "freed"
    /\ wpc[w] = "lock"
    /\ lock # "free"
    /\ wpc' = [wpc EXCEPT ![w] = "idle"]
    /\ ev' = NoEvent
    /\ UNCHANGED <<lock, fields, pending, timer_armed, db, host, env, hist,
                   loadvars, datavars, othervars>>

(* owl_scan_timeout_work under the mutex: lines 255-259 *)
owl_scan_timeout_work_locked ==
    /\ ctx # "freed"
    /\ wpc["ws_scan_timeout"] = "cs"
    /\ ev' = [type |-> "scan_done", req |-> scan_request, aborted |-> FALSE,
              open |-> scan_request \in scan_open,
              stage |-> scan_stage,
              reports |-> bss_reports]
    /\ scan_open' = scan_open \ {scan_request}
    /\ scan_stage' = "none"
    /\ scan_request' = 0
    /\ bss_reports' = << >>
    /\ lock' = "free"
    /\ wpc' = [wpc EXCEPT !["ws_scan_timeout"] = "idle"]
    /\ UNCHANGED <<connecting_ssid, connecting_bssid, disconnect_reason_code,
                   pending, timer_armed, ssid_table, ld_s, it_rest, host, env,
                   conn_q, disc_q, loadvars, datavars, othervars>>

(* the request an upcall answers: the oldest accepted call still open *)
Answered(q) ==
    IF q = << >> THEN [open |-> FALSE, req |-> << >>]
    ELSE [open |-> TRUE, req |-> <<Head(q)>>]

Pop(q) == IF q = << >> THEN q ELSE Tail(q)

(* the SSID owl_connect_routine looks up: owl->connecting_ssid *)
ConnectLookup == connecting_ssid

(* owl_connect_routine under the mutex: lines 334-351.  The upcall goes to
   list_first_entry(&owl->netintf_list), the station interface. *)
owl_connect_routine_locked ==
    /\ wpc["ws_connect"] = "cs"
    /\ ev' = [type |-> IF is_valid_ssid(ssid_table, ConnectLookup)
                       THEN "connect_result" ELSE "connect_timeout",
              iface |-> 0,
              status |-> IF is_valid_ssid(ssid_table, ConnectLookup)
                         THEN "WLAN_STATUS_SUCCESS"
                         ELSE "NL80211_TIMEOUT_SCAN",
              ssid |-> ConnectLookup,
              for |-> Answered(conn_q),
              known |-> conn_q # << >>
                        /\ is_valid_ssid(ssid_table, TruncSsid(Head(conn_q)))]
    /\ conn_q' = Pop(conn_q)
    /\ connecting_ssid' = EmptySsid
    /\ lock' = "free"
    /\ wpc' = [wpc EXCEPT !["ws_connect"] = "idle"]
    /\ UNCHANGED <<scan_request, connecting_bssid, disconnect_reason_code,
                   pending, timer_armed, db, host, env, scan_open, scan_stage, disc_q,
                   loadvars, datavars, othervars>>

(* owl_disconnect_routine under the mutex: lines 367-373 *)
owl_disconnect_routine_locked ==
    /\ wpc["ws_disconnect"] = "cs"
    /\ ev' = [type |-> "disconnected",
              iface |-> 0,
              reason |-> disconnect_reason_code,
              locally_generated |-> TRUE,
              for |-> Answered(disc_q)]
    /\ disc_q' = Pop(disc_q)
    /\ disconnect_reason_code' = 0
    /\ lock' = "free"
    /\ wpc' = [wpc EXCEPT !["ws_disconnect"] = "idle"]
    /\ UNCHANGED <<scan_request, connecting_ssid, connecting_bssid, pending,
                   timer_armed, db, host, env, scan_open, scan_stage, conn_q, loadvars,
                   datavars, othervars>>

(***************************************************************************)
(* The module parameter ssid_list is writable (0644) while the module is   *)
(* loaded.                                                                 *)
(***************************************************************************)
SetConfig ==
    /\ ctx = "live"
    /\ nwrites < MaxWrites
    /\ \E c \in Configs \ {ssid_list} : ssid_list' = c
    /\ nwrites' = nwrites + 1
    /\ ev' = NoEvent
    /\ UNCHANGED <<lock, fields, wq, db, host, ncalls, ctx, uaf, hist,
                   loadvars, datavars, othervars>>

(***************************************************************************)
(* vwifi_exit: cancel_work_sync on ws_connect, ws_disconnect and ws_scan   *)
(* (each removes the item from the queue and waits for a running handler), *)
(* then owl_free.  The host stack makes no call once the module exits.     *)
(***************************************************************************)
cancel_work_sync(w, from, to) ==
    /\ ctx = from
    /\ wpc[w] = "idle"
    /\ pending' = [pending EXCEPT ![w] = FALSE]
    /\ ctx' = to
    /\ ev' = NoEvent
    /\ UNCHANGED <<lock, fields, wpc, timer_armed, db, host, ssid_list,
                   nwrites, ncalls, uaf, hist, loadvars, datavars, othervars>>

vwifi_exit_connect ==
    /\ host = Idle
    /\ cancel_work_sync("ws_connect", "live", "exit1")

vwifi_exit_disconnect == cancel_work_sync("ws_disconnect", "exit1", "exit2")

vwifi_exit_scan == cancel_work_sync("ws_scan", "exit2", "exit3")

owl_free ==
    /\ ctx = "exit3"
    /\ ctx' = "freed"
    /\ ev' = NoEvent
    /\ UNCHANGED <<lock, fields, wq, db, host, ssid_list, nwrites, ncalls,
                   uaf, hist, loadvars, datavars, othervars>>

(* what is left of the scan pipeline: the timer armed, or the
   scan-complete work queued or running *)
ScanLeftover ==
    \/ timer_armed
    \/ pending["ws_scan_timeout"]
    \/ wpc["ws_scan_timeout"] \notin {"idle", "oops"}

(* the timer callback or the scan-complete work runs on the freed context *)
UseAfterFree ==
    /\ ctx = "freed"
    /\ ScanLeftover
    /\ uaf' = TRUE
    /\ timer_armed' = FALSE
    /\ pending' = [pending EXCEPT !["ws_scan_timeout"] = FALSE]
    /\ wpc' = [wpc EXCEPT !["ws_scan_timeout"] =
                  IF @ = "idle" THEN "idle" ELSE "oops"]
    /\ ev' = NoEvent
    /\ UNCHANGED <<lock, fields, db, host, ssid_list, nwrites, ncalls, ctx,
                   hist, loadvars, datavars, othervars>>

Next ==
    \/ HostCall
    \/ HostLock
    \/ HostInterrupted
    \/ owl_scan_locked
    \/ owl_scan_submit
    \/ owl_connect_locked
    \/ owl_connect_submit
    \/ owl_disconnect_locked
    \/ owl_disconnect_submit
    \/ owl_scan_routine
    \/ owl_scan_timeout
    \/ owl_scan_timeout_work_start
    \/ update_ssids_step
    \/ inform_dummy_bss_step
    \/ WorkLock("ws_scan_timeout")
    \/ WorkInterrupted("ws_scan_timeout")
    \/ owl_scan_timeout_work_locked
    \/ WorkStart("ws_connect")
    \/ WorkLock("ws_connect")
    \/ WorkInterrupted("ws_connect")
    \/ owl_connect_routine_locked
    \/ WorkStart("ws_disconnect")
    \/ WorkLock("ws_disconnect")
    \/ WorkInterrupted("ws_disconnect")
    \/ owl_disconnect_routine_locked
    \/ SetConfig
    \/ vwifi_exit_connect
    \/ vwifi_exit_disconnect
    \/ vwifi_exit_scan
    \/ owl_free
    \/ UseAfterFree

Spec == Init /\ [][Next]_vars

(***************************************************************************)
(* Data path: owl_ndo_start_xmit and owl_handle_rx.  The two interfaces    *)
(* transmit independently; one interface transmits one frame at a time.    *)
(***************************************************************************)
ctlvars == <<lock, fields, wq, db, host, env, ev, hist, loadvars, othervars>>

(* dest_np: the last entry of netintf_list, or the first when the last is
   the transmitting device *)
dest_np(dev) == IF (NDEV_NUMS - 1) = dev THEN 0 ELSE NDEV_NUMS - 1

(* memcpy(&pkt->data, skb->data, skb->len); pkt->datalen = skb->len.  data
   holds ETH_DATA_LEN bytes: the bytes of a longer frame run over the list
   member that follows it, which list_add_tail then rewrites, so what is
   read back there is not determined. *)
owl_packet(skb) ==
    IF skb.len <= ETH_DATA_LEN
    THEN {[datalen |-> skb.len, fill |-> skb.fill, tail |-> "intact"]}
    ELSE {[datalen |-> skb.len, fill |-> skb.fill, tail |-> t] :
              t \in {"intact", "clobbered"}}

(* owl_ndo_start_xmit, lines 556-564: count, then kmalloc the packet *)
xmit_start(dev) ==
    /\ netif[dev].up
    /\ txp[dev].pc = "idle"
    /\ ntx < MaxFrames
    /\ ntx' = ntx + 1
    /\ \E skb \in Frames, alloc \in BOOLEAN :
         /\ stats' = [stats EXCEPT
                        ![dev].tx_packets = @ + 1,
                        ![dev].tx_bytes = @ + skb.len]
         /\ txp' = [txp EXCEPT ![dev] =
                      [pc |-> IF alloc THEN "copy" ELSE "done",
                       skb |-> skb,
                       skb_freed |-> FALSE,
                       enqueued |-> FALSE,
                       nomem |-> ~alloc,
                       ret |-> NETDEV_TX_OK,
                       pkt_frees |-> 0,
                       pre |-> [tx |-> stats[dev],
                                rx |-> stats[dest_np(dev)],
                                log |-> rx_log[dest_np(dev)],
                                queue |-> rx_queue[dest_np(dev)]]]]
    /\ UNCHANGED <<rx_queue, rx_log, netif, ctlvars>>

(* lines 565-578: copy, list_add_tail to the peer's rx_queue, kfree_skb *)
xmit_enqueue(dev) ==
    /\ txp[dev].pc = "copy"
    /\ \E pkt \in owl_packet(txp[dev].skb) :
         rx_queue' = [rx_queue EXCEPT ![dest_np(dev)] = Append(@, pkt)]
    /\ txp' = [txp EXCEPT ![dev].pc = "rx", ![dev].skb_freed = TRUE,
                          ![dev].enqueued = TRUE]
    /\ UNCHANGED <<stats, rx_log, ntx, netif, ctlvars>>

(* a wrong count: the dropped frame is counted as received as well *)
rx_nomem_stats_counted(st) ==
    [st EXCEPT !.rx_dropped = @ + 1, !.rx_packets = @ + 1]

(* dev_alloc_skb failed in owl_handle_rx: np->stats.rx_dropped++ *)
rx_nomem_stats(st) == [st EXCEPT !.rx_dropped = @ + 1]

(* owl_handle_rx(dest_np->ndev), called at line 580; it ends with list_del
   and kfree of the packet it took from the head of rx_queue *)
owl_handle_rx(dev) ==
    /\ txp[dev].pc = "rx"
    /\ LET d == dest_np(dev)
       IN  IF rx_queue[d] = << >>
           THEN /\ txp' = [txp EXCEPT ![dev].pc = "done"]
                /\ UNCHANGED <<stats, rx_log, rx_queue>>
           ELSE LET pkt == Head(rx_queue[d])
                IN  /\ \E alloc \in BOOLEAN :
                         /\ IF alloc
                            THEN /\ rx_log' = [rx_log EXCEPT ![d] =
                                       Append(@, [len |-> pkt.datalen,
                                                  fill |-> pkt.fill,
                                                  tail |-> pkt.tail])]
                                 /\ stats' = [stats EXCEPT
                                       ![d].rx_packets = @ + 1,
                                       ![d].rx_bytes = @ + pkt.datalen]
                            ELSE /\ stats' = [stats EXCEPT
                                       ![d] = rx_nomem_stats(@)]
                                 /\ UNCHANGED rx_log
                         /\ txp' = [txp EXCEPT ![dev].pc = "done",
                                               ![dev].nomem = ~alloc,
                                               ![dev].pkt_frees = @ + 1]
                    /\ rx_queue' = [rx_queue EXCEPT ![d] = Tail(@)]
    /\ UNCHANGED <<ntx, netif, ctlvars>>

(* return NETDEV_TX_OK *)
xmit_return(dev) ==
    /\ txp[dev].pc = "done"
    /\ txp' = [txp EXCEPT ![dev] = TxIdle]
    /\ UNCHANGED <<stats, rx_queue, rx_log, ntx, netif, ctlvars>>

(* owl_ndo_open: netif_start_queue(dev) *)
owl_ndo_open(dev) ==
    /\ ~netif[dev].up
    /\ netif' = [netif EXCEPT ![dev].up = TRUE]
    /\ UNCHANGED <<stats, rx_queue, txp, rx_log, ntx, ctlvars>>

(* owl_ndo_stop: list_del and kfree of every packet in the interface's own
   rx_queue, then netif_stop_queue.  The host stack calls it when the
   interface's own transmit has come to rest; the peer, whose transmit
   fills this rx_queue, goes on. *)
owl_ndo_stop(dev) ==
    /\ netif[dev].up
    /\ txp[dev].pc = "idle"
    /\ netif' = [netif EXCEPT ![dev] =
                    [up |-> FALSE, stop_freed |-> Len(rx_queue[dev])]]
    /\ rx_queue' = [rx_queue EXCEPT ![dev] = << >>]
    /\ UNCHANGED <<stats, txp, rx_log, ntx, ctlvars>>

NextData ==
    \E dev \in Devs :
        \/ owl_ndo_open(dev)
        \/ xmit_start(dev)
        \/ xmit_enqueue(dev)
        \/ owl_handle_rx(dev)
        \/ xmit_return(dev)
        \/ owl_ndo_stop(dev)

SpecData == Init /\ [][NextData]_vars

(***************************************************************************)
(* update_ssids on its own: successive runs over configuration strings,    *)
(* as the scan-complete work makes them after the parameter was rewritten. *)
(***************************************************************************)
LoadConfigs ==
    { CfgHomeWork,
      Bracket(Home2) \o Bracket(Home),
      Bracket(Home) \o Bracket(Home2),
      Bracket(Home) \o Bracket(Ho),
      Bracket(Home) \o Bracket(Home),
      <<LBRACK, LBRACK>> \o Home \o <<RBRACK, RBRACK, RBRACK>> \o Work,
      <<LBRACK, RBRACK>>,
      << >>,
      Bracket(Ssid31),
      Bracket(Ssid32),
      Bracket(Ssid33) }
(* number of runs of update_ssids *)
MaxLoads == 2

LoadOthers == <<lock, fields, pending, timer_armed, it_rest, bss_reports, host,
                nwrites, ncalls, ctx, uaf, ev, hist, datavars, othervars>>

update_ssids_begin ==
    /\ wpc["ws_scan_timeout"] = "idle"
    /\ nloads < MaxLoads
    /\ \E c \in LoadConfigs :
         /\ ssid_list' = c
         /\ ld_cfg' = c
         /\ ld_s' = c
    /\ ld_before' = ssid_table
    /\ ld_failed' = FALSE
    /\ ld_oob' = FALSE
    /\ ld_started' = TRUE
    /\ wpc' = [wpc EXCEPT !["ws_scan_timeout"] = "load"]
    /\ UNCHANGED <<ssid_table, nloads>>
    /\ UNCHANGED LoadOthers

update_ssids_loop ==
    /\ wpc["ws_scan_timeout"] = "load"
    /\ IF ld_s = << >>
       THEN /\ wpc' = [wpc EXCEPT !["ws_scan_timeout"] = "idle"]
            /\ nloads' = nloads + 1
            /\ UNCHANGED <<ssid_table, ld_s, ld_failed, ld_oob>>
       ELSE \E alloc \in BOOLEAN, survive \in BOOLEAN :
              LET r == update_ssids_iter(ssid_table, ld_s, alloc, survive)
              IN  /\ ssid_table' = r.table
                  /\ ld_failed' = r.ret
                  /\ ld_oob' = (ld_oob \/ r.oob)
                  /\ ld_s' = IF r.ret THEN << >> ELSE r.s
                  /\ wpc' = IF r.oops
                            THEN [wpc EXCEPT !["ws_scan_timeout"] = "oops"]
                            ELSE wpc
                  /\ UNCHANGED nloads
    /\ UNCHANGED <<ssid_list, ld_cfg, ld_before, ld_started>>
    /\ UNCHANGED LoadOthers

NextLoad == update_ssids_begin \/ update_ssids_loop

SpecLoad == Init /\ [][NextLoad]_vars

(***************************************************************************)
(* owl_create_context, called by vwifi_init when the module is loaded.     *)
(* Every allocation and registration can fail.  A load that failed can be  *)
(* tried again.                                                            *)
(***************************************************************************)
(* number of times the module is loaded *)
MaxInits == 2

CreateOthers == <<lock, fields, wq, db, host, env, ev, hist, loadvars,
                  datavars, randvars>>

InitCreate ==
    /\ ssid_list \in Configs
    /\ vwifi_init
    /\ cr = NotCreated(1, 0)
    /\ rnd = 0
    /\ signal = << >>

(* ret = kmalloc(sizeof *ret, GFP_KERNEL), lines 675-677 *)
create_kmalloc ==
    /\ cr.pc = "kmalloc"
    /\ \E alloc \in BOOLEAN :
         cr' = IF alloc THEN [cr EXCEPT !.ret = "live", !.pc = "wiphy_new"]
               ELSE [cr EXCEPT !.pc = "l_error"]
    /\ UNCHANGED CreateOthers

(* ret->wiphy = wiphy_new_nm(...), lines 684-687 *)
create_wiphy_new ==
    /\ cr.pc = "wiphy_new"
    /\ \E alloc \in BOOLEAN :
         cr' = IF alloc
               THEN [cr EXCEPT !.wiphy = "allocated", !.pc = "wiphy_register"]
               ELSE [cr EXCEPT !.pc = "l_error_wiphy"]
    /\ UNCHANGED CreateOthers

(* wiphy_register(ret->wiphy) and INIT_LIST_HEAD, lines 726-729 *)
create_wiphy_register ==
    /\ cr.pc = "wiphy_register"
    /\ \E ok \in BOOLEAN :
         cr' = IF ok
               THEN [cr EXCEPT !.wiphy = "registered", !.netintf_list = << >>,
                               !.i = 0, !.pc = "alloc_netdev"]
               ELSE [cr EXCEPT !.pc = "l_error_wiphy_register"]
    /\ UNCHANGED CreateOthers

(* the loop test i < NDEV_NUMS and ndev = alloc_netdev(...), lines 730-742 *)
create_alloc_netdev ==
    /\ cr.pc = "alloc_netdev"
    /\ cr.i < NDEV_NUMS
    /\ \E alloc \in BOOLEAN :
         cr' = IF alloc
               THEN [cr EXCEPT !.ndev[cr.i] = "allocated",
                               !.pc = "register_netdev"]
               ELSE [cr EXCEPT !.pc = "l_error_alloc_ndev"]
    /\ UNCHANGED CreateOthers

(* register_netdev(ndev_data->ndev) and list_add_tail, lines 750-752 *)
create_register_netdev ==
    /\ cr.pc = "register_netdev"
    /\ \E ok \in BOOLEAN :
         cr' = IF ok
               THEN [cr EXCEPT !.ndev[cr.i] = "registered",
                               !.netintf_list = Append(@, cr.i),
                               !.i = @ + 1, !.pc = "alloc_netdev"]
               ELSE [cr EXCEPT !.it = cr.netintf_list,
                               !.pc = "l_error_ndev_register"]
    /\ UNCHANGED CreateOthers

(* return ret, line 755 *)
create_return ==
    /\ cr.pc = "alloc_netdev"
    /\ cr.i = NDEV_NUMS
    /\ cr' = [cr EXCEPT !.pc = "loaded"]
    /\ UNCHANGED CreateOthers

(* l_error_ndev_register, lines 757-761: list_for_each_entry over
   netintf_list with free_netdev(ndev_data->ndev) and
   list_del(&ndev_data->list).  The entries of the list are registered
   interfaces and ndev_data lies inside the net_device that is freed:
   free_netdev of a registered interface either stops the thread there, or
   the entry is freed, list_del writes into it and the loop then follows
   the pointer list_del left in the freed entry. *)
l_error_ndev_register ==
    /\ cr.pc = "l_error_ndev_register"
    /\ IF cr.it = << >>
       THEN cr' = [cr EXCEPT !.pc = "l_error_alloc_ndev"]
       ELSE LET d == Head(cr.it)
            IN  \/ cr' = [cr EXCEPT
                            !.faults = @ \cup {"free_netdev of a registered interface"},
                            !.pc = "oops"]
                \/ cr' = [cr EXCEPT
                            !.ndev[d] = "freed",
                            !.netintf_list = Tail(@),
                            !.it = Tail(@),
                            !.faults = @ \cup {"free_netdev of a registered interface",
                                               "use after free"},
                            !.pc = "oops"]
    /\ UNCHANGED CreateOthers

(* l_error_alloc_ndev: wiphy_unregister(ret->wiphy), line 763 *)
l_error_alloc_ndev ==
    /\ cr.pc = "l_error_alloc_ndev"
    /\ cr' = [cr EXCEPT !.wiphy = "unregistered",
                        !.pc = "l_error_wiphy_register"]
    /\ UNCHANGED CreateOthers

(* l_error_wiphy_register: wiphy_free(ret->wiphy), line 765 *)
l_error_wiphy_register ==
    /\ cr.pc = "l_error_wiphy_register"
    /\ cr' = [cr EXCEPT !.wiphy = "freed", !.pc = "l_error_wiphy"]
    /\ UNCHANGED CreateOthers

(* l_error_wiphy: kfree(ret), line 767 *)
l_error_wiphy ==
    /\ cr.pc = "l_error_wiphy"
    /\ cr' = [cr EXCEPT !.ret = "freed", !.pc = "l_error"]
    /\ UNCHANGED CreateOthers

(* l_error: return NULL, and vwifi_init returns 1 *)
l_error ==
    /\ cr.pc = "l_error"
    /\ cr' = [cr EXCEPT !.pc = "failed"]
    /\ UNCHANGED CreateOthers

(* the interfaces a failed owl_create_context has left behind *)
LeftBehind(c) ==
    Cardinality({d \in Devs : c.ndev[d] \notin {"none", "freed"}})

(* the module is loaded again after a load that failed *)
vwifi_init_again ==
    /\ cr.pc = "failed"
    /\ cr.n < MaxInits
    /\ cr' = NotCreated(cr.n + 1, cr.left + LeftBehind(cr))
    /\ UNCHANGED CreateOthers

NextCreate ==
    \/ create_kmalloc
    \/ create_wiphy_new
    \/ create_wiphy_register
    \/ create_alloc_netdev
    \/ create_register_netdev
    \/ create_return
    \/ l_error_ndev_register
    \/ l_error_alloc_ndev
    \/ l_error_wiphy_register
    \/ l_error_wiphy
    \/ l_error
    \/ vwifi_init_again

SpecCreate == InitCreate /\ [][NextCreate]_vars

(***************************************************************************)
(* The signal of a BSS report: rand_int(-100, -30) * 100, line 206.        *)
(***************************************************************************)
INT_MIN == -2147483647 - 1
INT_MAX == 2147483647

(* how far the values drawn lie from INT_MIN, 0 and INT_MAX *)
RandSpan == 40

(* values of (s32) get_random_u32() *)
RandomValues ==
    {INT_MIN + k : k \in 0 .. RandSpan}
      \cup ((0 - 2 * RandSpan) .. (2 * RandSpan))
      \cup {INT_MAX - k : k \in 0 .. RandSpan}

get_random_u32 == rnd

(* a % b of C for b > 0: the remainder has the sign of a *)
c_rem(a, b) ==
    LET m == a % b
    IN  IF a >= 0 \/ m = 0 THEN m ELSE m - b

(* a wrong rand_int: abs is left out *)
abs_missing(x) == x

abs(x) == IF x < 0 THEN 0 - x ELSE x

rand_int(low, up) ==
    LET result0 == get_random_u32
        result1 == c_rem(result0, up - low + 1)
        result2 == abs(result1)
    IN  result2 + low

RandOthers == <<lock, fields, wq, db, host, env, ev, hist, loadvars,
                datavars, createvars>>

InitRand ==
    /\ ssid_list \in Configs
    /\ vwifi_init
    /\ cr = Created
    /\ rnd \in RandomValues
    /\ signal = << >>

(* .signal = rand_int(-100, -30) * 100 in inform_dummy_bss *)
inform_signal ==
    /\ signal = << >>
    /\ signal' = <<rand_int(-100, -30) * 100>>
    /\ UNCHANGED rnd
    /\ UNCHANGED RandOthers

NextRand == inform_signal

SpecRand == InitRand /\ [][NextRand]_vars

(***************************************************************************)
(* Properties                                                              *)
(***************************************************************************)
ScanDone == "scan_done"
ConnectUpcalls == {"connect_result", "connect_timeout"}
Returned(op, val) == ev.type = "return" /\ ev.op = op /\ ev.val = val

(* C1: a scan call that finds scan_request set when it tests it under the
   mutex returns -EBUSY, leaves scan_request as it is and submits nothing
   (no work item becomes queued, the timer is not touched), whatever the
   work handlers are doing at that moment. *)
C1_ScanBusy ==
    [][ (host.op = "scan" /\ host.step = "cs" /\ scan_request # 0
          /\ host' # host)
        => /\ ev' = [type |-> "return", op |-> "scan", arg |-> host.arg,
                     val |-> EBUSY]
           /\ host' = Idle
           /\ scan_request' = scan_request
           /\ pending' = pending
           /\ timer_armed' = timer_armed ]_vars

(* C1 witness: a second scan was refused while the first one is still
   stored and its scan-start work or timer is outstanding *)
C1_Witness ==
    /\ Returned("scan", EBUSY)
    /\ scan_request # 0
    /\ scan_request # ev.arg
    /\ (pending["ws_scan"] \/ timer_armed)

(* the scan pipeline is at rest: no scan call in progress, scan-start and
   scan-complete work neither queued nor running, timer not armed *)
ScanQuiet ==
    /\ host.op # "scan"
    /\ ~pending["ws_scan"]
    /\ ~pending["ws_scan_timeout"]
    /\ wpc["ws_scan_timeout"] \in {"idle", "oops"}
    /\ ~timer_armed

(* C2: while the module is loaded, every scan call that returned 0 gets
   exactly one scan_done (aborted = false) for its request: a scan_done is
   for an accepted request that had none yet and scan_request is NULL right
   after it, and once the pipeline is at rest no accepted scan is left
   without its scan_done and scan_request is NULL. *)
C2_ScanDoneOnce ==
    /\ ev.type = ScanDone
         => ev.open /\ ev.aborted = FALSE /\ scan_request = 0
    /\ (ctx = "live" /\ ScanQuiet) => (scan_open = {} /\ scan_request = 0)

(* the connect path is at rest *)
ConnectQuiet ==
    /\ host.op # "connect"
    /\ ~pending["ws_connect"]
    /\ wpc["ws_connect"] = "idle"

(* C3: while the module is loaded, every connect call that returned 0 gets
   exactly one upcall, connect_result(success) or connect_timeout, on
   interface 0, with connecting_ssid empty right after it: every such
   upcall answers an accepted connect that had none yet, and once the
   connect path is at rest no accepted connect is left without one. *)
C3_ConnectDichotomy ==
    /\ ev.type \in ConnectUpcalls
         => /\ ev.for.open
            /\ ev.iface = 0
            /\ connecting_ssid = EmptySsid
            /\ ev.type = "connect_result" => ev.status = "WLAN_STATUS_SUCCESS"
    /\ (ctx = "live" /\ ConnectQuiet) => conn_q = << >>

(* C4: the upcall that answers an accepted connect(S) is
   connect_result(success) on interface 0 if the AP database holds S when
   the upcall is made, and connect_timeout if it does not. *)
C4_ConnectOutcome ==
    ev.type \in ConnectUpcalls
      => /\ ev.for.open
         /\ ev.iface = 0
         /\ (ev.type = "connect_result") <=> ev.known

(* C5: every disconnected upcall answers an accepted disconnect(r): it is
   made on interface 0 with reason code r and locally_generated = true, and
   the staged reason is 0 after it. *)
C5_DisconnectReason ==
    ev.type = "disconnected"
      => /\ ev.for.open
         /\ ev.iface = 0
         /\ ev.locally_generated
         /\ ev.for.req = <<ev.reason>>
         /\ disconnect_reason_code = 0

(* C6: when a transmit of frame B on one interface returns, neither of its
   allocations having failed, the other interface has received exactly one
   more frame, with the bytes of B, the sender counts one more packet and
   |B| more bytes sent and the receiver one more packet and |B| more bytes
   received. *)
C6_Loopback ==
    \A dev \in Devs :
        (txp[dev].pc = "done" /\ ~txp[dev].nomem)
          => LET d == dest_np(dev)
                 B == txp[dev].skb
                 pre == txp[dev].pre
             IN  /\ d # dev
                 /\ rx_log[d] = Append(pre.log, B)
                 /\ stats[dev].tx_packets = pre.tx.tx_packets + 1
                 /\ stats[dev].tx_bytes = pre.tx.tx_bytes + B.len
                 /\ stats[d].rx_packets = pre.rx.rx_packets + 1
                 /\ stats[d].rx_bytes = pre.rx.rx_bytes + B.len

(* C7: a scan, connect or disconnect call whose wait for the mutex is
   interrupted returns -ERESTARTSYS and changes none of scan_request,
   connecting_ssid, connecting_bssid, disconnect_reason_code, queues no work
   item and does not touch the timer. *)
C7_InterruptedNoEffect ==
    [][ (host.step = "lock" /\ ev'.type = "return"
          /\ ev'.val = ERESTARTSYS)
        => /\ ev'.op = host.op
           /\ host' = Idle
           /\ scan_request' = scan_request
           /\ connecting_ssid' = connecting_ssid
           /\ connecting_bssid' = connecting_bssid
           /\ disconnect_reason_code' = disconnect_reason_code
           /\ pending' = pending
           /\ timer_armed' = timer_armed ]_vars

(* C7 witness: a connect for an SSID other than the staged one was
   interrupted *)
C7_Witness ==
    /\ Returned("connect", ERESTARTSYS)
    /\ connecting_ssid # ev.arg

(* C8: once owl_free has run, nothing of the driver is outstanding: no
   work item is queued or running and the scan timer is not armed. *)
C8_DrainedBeforeFree ==
    ctx = "freed"
      => /\ ~timer_armed
         /\ \A w \in Works : ~pending[w] /\ wpc[w] \in {"idle", "oops"}

(* the SSID element the host stack is to be given for an SSID *)
ExpectedIe(ssid) == <<0, Len(ssid)>> \o ssid

Occurrences(seq, x) == Cardinality({i \in 1 .. Len(seq) : seq[i] = x})

(* the reports are one SSID element per entry of the table *)
OnePerEntry(reports, table) ==
    LET all == hash_for_each(table)
    IN  /\ Len(reports) = Len(all)
        /\ \A i \in 1 .. Len(all) :
             Occurrences(reports, ExpectedIe(all[i].ssid))
               = Cardinality({j \in 1 .. Len(all) : all[j].ssid = all[i].ssid})

(* inform_dummy_bss is over in the scan-complete work *)
Informed ==
    ctx # "freed" /\ wpc["ws_scan_timeout"] \in {"lock", "cs", "oops"}

(* C9: when inform_dummy_bss is over in a run of the scan-complete work, it
   has reported one SSID element (id 0, length, SSID) per entry of the
   reloaded AP database, all of them before that run's scan_done; with
   ssid_list "[Home][Work]" since the module was loaded (and update_ssids
   not cut short by an allocation failure) they are Home and Work. *)
C9_ReportsPerEntry ==
    /\ Informed => OnePerEntry(bss_reports, ssid_table)
    /\ ev.type = ScanDone => OnePerEntry(ev.reports, ssid_table)
    /\ (Informed /\ nwrites = 0 /\ ssid_list = CfgHomeWork /\ ~ld_failed)
         => /\ Len(bss_reports) = 2
            /\ {bss_reports[i] : i \in 1 .. Len(bss_reports)}
                 = {ExpectedIe(Home), ExpectedIe(Work)}

(* the non-empty tokens of a configuration string: its maximal runs of
   bytes other than '[' and ']' *)
Tokens(cfg) ==
    {SubSeq(cfg, i, j) : <<i, j>> \in
        {p \in (1 .. Len(cfg)) \X (1 .. Len(cfg)) :
            /\ p[1] <= p[2]
            /\ \A k \in p[1] .. p[2] : cfg[k] \notin delims
            /\ (p[1] = 1 \/ cfg[p[1] - 1] \in delims)
            /\ (p[2] = Len(cfg) \/ cfg[p[2] + 1] \in delims)}}

(* a run of update_ssids is over and no allocation failed in it *)
Loaded == wpc["ws_scan_timeout"] = "idle" /\ nloads > 0 /\ ~ld_failed

(* C10: after update_ssids(config) without allocation failure on a table
   with SSID set D, the table's SSID set is D united with the non-empty
   tokens of config, with one entry per SSID. *)
C10_LoadUnion ==
    Loaded
      => /\ SsidsOf(ssid_table) = SsidsOf(ld_before) \cup Tokens(ld_cfg)
         /\ Len(hash_for_each(ssid_table)) = Cardinality(SsidsOf(ssid_table))

(* C11: update_ssids writes nothing past token[] and ap->ssid[], every
   stored SSID has at most SSID_MAX_LENGTH bytes (so the length byte of its
   SSID element is at most 32), and after a run without allocation failure
   a token longer than SSID_MAX_LENGTH bytes is in the table as its first
   SSID_MAX_LENGTH bytes. *)
C11_TokenBounded ==
    /\ ~ld_oob
    /\ \A b \in Buckets : \A i \in 1 .. Len(ssid_table[b]) :
         SsidIe(ssid_table[b][i])[2] <= SSID_MAX_LENGTH
    /\ Loaded => \A t \in Tokens(ld_cfg) :
                    Len(t) > SSID_MAX_LENGTH
                      => TruncSsid(t) \in SsidsOf(ssid_table)

(* C12: when owl_create_context has returned NULL nothing of that call is
   left: the context, the radio and every interface it made are freed (or
   were never made), no interface is on the list, and the clean-up neither
   freed a registered interface nor used a freed one nor died on the
   way. *)
C12_CreateUnwinds ==
    /\ cr.pc # "oops"
    /\ cr.faults = {}
    /\ cr.pc = "failed"
         => /\ cr.ret \in {"none", "freed"}
            /\ cr.wiphy \in {"none", "freed"}
            /\ \A d \in Devs : cr.ndev[d] \in {"none", "freed"}
            /\ cr.netintf_list = << >>

(* the transmit of dev is about to return and its kmalloc of the packet
   had failed / its packet was queued and dev_alloc_skb failed on receive *)
XmitNoMem(dev) ==
    txp[dev].pc = "done" /\ txp[dev].nomem /\ ~txp[dev].enqueued
RxNoMem(dev) ==
    txp[dev].pc = "done" /\ txp[dev].nomem /\ txp[dev].enqueued

(* C13: when kmalloc of the packet fails in owl_ndo_start_xmit, the call
   returns NETDEV_TX_OK, the skb it was given has been freed, the peer's
   rx_queue is as it was and the peer has received nothing. *)
C13_XmitDrop ==
    \A dev \in Devs :
        XmitNoMem(dev)
          => /\ txp[dev].ret = NETDEV_TX_OK
             /\ txp[dev].skb_freed
             /\ rx_queue[dest_np(dev)] = txp[dev].pre.queue
             /\ rx_log[dest_np(dev)] = txp[dev].pre.log

(* C14: when dev_alloc_skb fails in owl_handle_rx, rx_dropped of the
   receiving interface is one more, its rx_packets and rx_bytes are as they
   were, nothing was handed to the host stack, and the packet at the head
   of rx_queue has been taken off the queue and freed once. *)
C14_RxDrop ==
    \A dev \in Devs :
        RxNoMem(dev)
          => LET d == dest_np(dev)
                 pre == txp[dev].pre
             IN  /\ stats[d].rx_dropped = pre.rx.rx_dropped + 1
                 /\ stats[d].rx_packets = pre.rx.rx_packets
                 /\ stats[d].rx_bytes = pre.rx.rx_bytes
                 /\ rx_log[d] = pre.log
                 /\ rx_queue[d] = pre.queue
                 /\ txp[dev].pkt_frees = 1

(* C14 witness: a frame sent on owl0sink was dropped on owl0 for lack of
   memory, after an earlier frame had been received there *)
C14_Witness ==
    /\ RxNoMem(1)
    /\ stats[0].rx_dropped = 1
    /\ stats[0].rx_packets = 1

(* C15: whatever get_random_u32 returns, the signal of a BSS report is a
   multiple of 100 from -10000 to -3000 mBm, that is rand_int(-100, -30)
   is from -100 to -30. *)
C15_SignalRange ==
    \A k \in 1 .. Len(signal) :
        /\ signal[k] % 100 = 0
        /\ signal[k] >= -10000
        /\ signal[k] <= -3000

(* C15 witness: a signal was made of the most negative value *)
C15_Witness ==
    /\ rnd = INT_MIN
    /\ signal # << >>
    /\ signal[1] < -3000

(* C16: every packet owl_ndo_start_xmit has put on an rx_queue holds at
   most ETH_DATA_LEN bytes: no more than that was copied into its data
   array. *)
C16_PacketFits ==
    \A d \in Devs : \A k \in 1 .. Len(rx_queue[d]) :
        rx_queue[d][k].datalen <= ETH_DATA_LEN

(* C17: every run of the connect work reads a non-empty connecting_ssid
   and every run of the disconnect work reports a reason other than the 0
   a previous run left.  connecting_ssid and disconnect_reason_code are
   written by the calls (the SSID and the reason of the call, none of them
   empty or 0) and cleared by the work, so a run reads the value of the
   most recent call unless it reads a cleared field. *)
C17_LastWriteWins ==
    /\ ev.type \in ConnectUpcalls => ev.ssid # EmptySsid
    /\ ev.type = "disconnected" => ev.reason # 0

(* C18: the scan timer gets armed only in a step of the scan-start work;
   the scan-complete work gets queued only in a step of the timer callback
   that finds scan_request set, and the callback changes nothing else when
   it finds it NULL; and a scan_done is made for a scan whose scan-start
   work has run and whose timer has fired since it was accepted. *)
C18_ScanPipeline ==
    /\ [][ /\ (~timer_armed /\ timer_armed')
               => (pending["ws_scan"] /\ ~pending'["ws_scan"]
                   /\ wpc["ws_scan"] = "idle")
           /\ (~pending["ws_scan_timeout"] /\ pending'["ws_scan_timeout"])
               => (timer_armed /\ ~timer_armed' /\ scan_request # 0)
           /\ (ctx # "freed" /\ timer_armed /\ ~timer_armed'
                 /\ scan_request = 0)
               => pending' = pending ]_vars
    /\ [](ev.type = ScanDone => ev.stage = "running")

(* C18 witness: the scan_done of an accepted scan, after its scan-start
   work and its timer *)
C18_Witness ==
    /\ ev.type = ScanDone
    /\ ev.open
    /\ ev.stage = "running"
    /\ ev.req # 0

(* C19: the AP database changes only in the update_ssids steps of the
   scan-complete work; as long as no scan-complete work has started since
   the module was loaded it is empty, and every answer a connect gets is
   connect_timeout. *)
C19_EmptyUntilScan ==
    /\ [][ssid_table' # ssid_table
            => (wpc["ws_scan_timeout"] = "load" /\ ld_started)]_vars
    /\ [](~ld_started
            => /\ hash_empty(ssid_table)
               /\ ev.type \in ConnectUpcalls => ev.type = "connect_timeout")

(* C19 witness: before any scan, a connect to Home, which ssid_list names,
   was answered with connect_timeout *)
C19_Witness ==
    /\ ~ld_started
    /\ ev.type = "connect_timeout"
    /\ ev.for.open
    /\ ev.for.req = <<Home>>
    /\ ev.ssid = Home
    /\ ssid_list = CfgHomeWork

(* the SSIDs in the AP database that ssid_list no longer names *)
RemovedFromConfig ==
    {e.ssid : e \in {hash_for_each(ssid_table)[i] :
                        i \in 1 .. Len(hash_for_each(ssid_table))}}
      \ Tokens(ssid_list)

(* every bucket of the table after a step ends with the bucket before it *)
TableKept ==
    \A b \in Buckets :
       /\ Len(ssid_table[b]) <= Len(ssid_table'[b])
       /\ ssid_table[b] = SubSeq(ssid_table'[b],
                                 Len(ssid_table'[b]) - Len(ssid_table[b]) + 1,
                                 Len(ssid_table'[b]))

(* C20: no step removes or changes an entry of the AP database; at every
   scan_done each stored SSID that ssid_list no longer names has been
   reported; and the answer to an accepted connect to such an SSID is
   connect_result. *)
C20_DirectoryOnlyGrows ==
    /\ [][TableKept]_vars
    /\ [](ev.type = ScanDone
            => \A ssid \in RemovedFromConfig :
                  Occurrences(ev.reports, ExpectedIe(ssid)) >= 1)
    /\ []((/\ ev.type \in ConnectUpcalls
           /\ ev.for.open
           /\ ev.known
           /\ ev.for.req[1] \notin Tokens(ssid_list))
            => ev.type = "connect_result")

(* something that leads to scan_done is still to come: the scan call has
   not reached its schedule_work yet, the scan-start work is queued, the
   timer is armed, or the scan-complete work is queued or running *)
ScanCanComplete ==
    \/ host.op = "scan" /\ host.step = "sched"
    \/ pending["ws_scan"]
    \/ timer_armed
    \/ pending["ws_scan_timeout"]
    \/ wpc["ws_scan_timeout"] \in {"load", "report", "lock", "cs"}

(* C21: while the module is loaded, whenever scan_request is set the scan
   can still complete: nothing leaves scan_request set with no work queued
   or running and no timer armed. *)
C21_ScanNeverStuck ==
    (ctx = "live" /\ scan_request # 0) => ScanCanComplete

(* C22: every scan_done is made with scan_request set, and the
   scan-complete work starts once for an accepted scan: it never starts a
   second time, or without the timer of that scan having fired. *)
C22_ScanDoneRequest ==
    /\ ev.type = ScanDone => ev.req # 0
    /\ scan_stage # "rerun"
    /\ (ctx # "freed" /\ wpc["ws_scan_timeout"] \notin {"idle", "oops"})
         => (scan_stage = "running" /\ scan_request # 0)

(* C22 witness: the scan_done of a second accepted scan, made by the one
   run of the scan-complete work for it *)
C22_Witness ==
    /\ ev.type = ScanDone
    /\ ev.req = 2
    /\ ev.open
    /\ ev.stage = "running"
    /\ scan_open = {}
    /\ ld_started

(* the interface whose transmit fills the rx_queue of d *)
SourceOf(d) == CHOOSE src \in Devs : dest_np(src) = d

(* C23: an rx_queue never holds more than one packet and is empty whenever
   no transmit towards its interface is executing; the frame handed up is
   the frame of the transmit that is executing; and owl_ndo_stop finds no
   packet to free. *)
C23_RxQueueDrained ==
    \A d \in Devs :
       /\ Len(rx_queue[d]) <= 1
       /\ txp[SourceOf(d)].pc = "idle" => rx_queue[d] = << >>
       /\ LET t == txp[SourceOf(d)]
          IN  (t.pc = "done" /\ t.enqueued /\ ~t.nomem /\ t.pkt_frees = 1)
                => /\ Len(rx_log[d]) = Len(t.pre.log) + 1
                   /\ SubSeq(rx_log[d], 1, Len(t.pre.log)) = t.pre.log
                   /\ rx_log[d][Len(rx_log[d])].len = t.skb.len
                   /\ rx_log[d][Len(rx_log[d])].fill = t.skb.fill
       /\ netif[d].stop_freed = 0

(* inform_dummy_bss is executing: update_ssids is adding to ssid_table or
   hash_for_each_safe is walking it *)
Loading ==
    ctx # "freed" /\ wpc["ws_scan_timeout"] \in {"load", "report"}

(* the step is a lookup in ssid_table: get_connecting_bssid in owl_connect
   or is_valid_ssid in owl_connect_routine *)
LookupStep ==
    \/ host.op = "connect" /\ host.step = "cs" /\ host'.step # "cs"
    \/ wpc["ws_connect"] = "cs" /\ wpc'["ws_connect"] # "cs"

(* C24: no lookup in the AP database is made while the scan-complete work
   is inside inform_dummy_bss, loading or walking the database. *)
C24_LoadLookupExclusive == [][LookupStep => ~Loading]_vars

====
